---- MODULE Spec2Model ----
(***************************************************************************)
(* Model of the analysis orchestration core of ai-chart-analyzer:          *)
(* the credential manager and the analysis orchestrator of                 *)
(* src/geminiService.ts, and the component of src/App.tsx that drives them. *)
(*                                                                         *)
(* JavaScript strings are sequences of one-character strings.  A value     *)
(* that may be null/undefined is a record with a presence flag, so that    *)
(* every variable has one shape.                                           *)
(***************************************************************************)
EXTENDS Integers, Sequences, FiniteSets, Bags, TLC

VARIABLES
  ai,            \* the client, or none
  localStorage,  \* the item stored under GEMINI_API_KEY_LOCAL_STORAGE_KEY, or none
  inflight,      \* the bag of the clients whose requests are awaited
  requests,      \* the number of requests issued to the remote service
  last,          \* the record of the last step
  settlement,    \* afterAwait tabulated over the remote outcomes; never changes
  app            \* the state of the App component

vars == <<ai, localStorage, inflight, requests, last, settlement, app>>

(***************************************************************************)
(* Bounds of the model.                                                    *)
(***************************************************************************)
\* remote requests issued over a run
MaxRequests == 2
\* analyze calls suspended at the await at one time
MaxInFlight == 2

(***************************************************************************)
(* Characters and the string functions of the JavaScript runtime that the  *)
(* code uses.                                                              *)
(***************************************************************************)
UpperCase == <<"A","B","C","D","E","F","G","H","I","J","K","L","M",
               "N","O","P","Q","R","S","T","U","V","W","X","Y","Z">>

LowerCase == <<"a","b","c","d","e","f","g","h","i","j","k","l","m",
               "n","o","p","q","r","s","t","u","v","w","x","y","z">>

DigitChars == <<"0","1","2","3","4","5","6","7","8","9">>

Range(f) == {f[i] : i \in DOMAIN f}

WhitespaceChars == {" ", "\n", "\t", "\r"}

WordChars == Range(UpperCase) \cup Range(LowerCase) \cup Range(DigitChars) \cup {"_"}

LowerOf == [c \in Range(UpperCase) |->
              LowerCase[CHOOSE i \in DOMAIN UpperCase : UpperCase[i] = c]]

IsWhitespace(c) == c \in WhitespaceChars

IsWordChar(c) == c \in WordChars

LowerChar(c) == IF c \in DOMAIN LowerOf THEN LowerOf[c] ELSE c

\* String.prototype.toLowerCase
toLowerCase(s) == [i \in DOMAIN s |-> LowerChar(s[i])]

\* String.prototype.includes
includes(s, pat) ==
  \E i \in 0..(Len(s) - Len(pat)) : SubSeq(s, i + 1, i + Len(pat)) = pat

\* String.prototype.substring(0, n)
substring0(s, n) == SubSeq(s, 1, IF Len(s) < n THEN Len(s) ELSE n)

\* String.prototype.trim
trim(s) ==
  LET solid == {i \in DOMAIN s : ~IsWhitespace(s[i])}
  IN  IF solid = {} THEN << >>
      ELSE SubSeq(s, CHOOSE i \in solid : \A j \in solid : i <= j,
                     CHOOSE i \in solid : \A j \in solid : j <= i)

startsWith(s, pat) == Len(s) >= Len(pat) /\ SubSeq(s, 1, Len(pat)) = pat

(***************************************************************************)
(* Nullable values.                                                        *)
(***************************************************************************)
\* string | null
Null == [has |-> FALSE, str |-> << >>]

Str(s) == [has |-> TRUE, str |-> s]

\* JavaScript truthiness of a string | null | undefined
Truthy(v) == v.has /\ v.str # << >>

\* GoogleGenAI | null: a client remembers the key it was constructed from
NoClient == [live |-> FALSE, apiKey |-> << >>]

GoogleGenAI(key) == [live |-> TRUE, apiKey |-> key]

\* no exception / a thrown exception
NoError == [thrown |-> FALSE, name |-> "", message |-> << >>]

Error(msg) == [thrown |-> TRUE, name |-> "Error", message |-> msg]

TypeError == [thrown |-> TRUE, name |-> "TypeError", message |-> << >>]

(***************************************************************************)
(* Message texts of the source.                                            *)
(***************************************************************************)
EmptyKeyMessage == <<"A","P","I"," ","k","e","y"," ","c","a","n","n","o","t"," ","b","e"," ","e","m","p","t","y",".">>

InitFailedPrefix == <<"I","n","v","a","l","i","d"," ","A","P","I"," ","K","e","y"," ","o","r"," ","f","a","i","l","e","d"," ","t","o"," ","i","n","i","t","i","a","l","i","z","e"," ","G","e","m","i","n","i"," ","c","l","i","e","n","t",":"," ">>

NotInitializedMessage == <<"G","e","m","i","n","i"," ","A","P","I"," ","c","l","i","e","n","t"," ","i","s"," ","n","o","t"," ","i","n","i","t","i","a","l","i","z","e","d","."," ","P","l","e","a","s","e"," ","s","e","t"," ","y","o","u","r"," ","A","P","I"," ","k","e","y",".">>

EmptyResponseMessage == <<"R","e","c","e","i","v","e","d"," ","a","n"," ","e","m","p","t","y"," ","r","e","s","p","o","n","s","e"," ","f","r","o","m"," ","t","h","e"," ","A","I",".">>

ParseFailedPrefix == <<"F","a","i","l","e","d"," ","t","o"," ","p","a","r","s","e"," ","a","n","a","l","y","s","i","s"," ","d","a","t","a"," ","f","r","o","m"," ","A","I","."," ","R","a","w"," ","r","e","s","p","o","n","s","e",":"," ">>

Ellipsis == <<".",".",".">>

InvalidKeyMessage == <<"I","n","v","a","l","i","d"," ","G","e","m","i","n","i"," ","A","P","I"," ","K","e","y","."," ","P","l","e","a","s","e"," ","c","h","e","c","k"," ","y","o","u","r"," ","k","e","y"," ","a","n","d"," ","s","e","t"," ","i","t"," ","a","g","a","i","n",".">>

QuotaPrefix == <<"G","e","m","i","n","i"," ","A","P","I"," ","r","e","q","u","e","s","t"," ","f","a","i","l","e","d"," ","d","u","e"," ","t","o"," ","q","u","o","t","a"," ","l","i","m","i","t","s",":"," ">>

AnalyzeFailedPrefix == <<"E","r","r","o","r"," ","a","n","a","l","y","z","i","n","g"," ","c","h","a","r","t"," ","w","i","t","h"," ","G","e","m","i","n","i",":"," ">>

UnknownError == <<"U","n","k","n","o","w","n"," ","e","r","r","o","r">>

ApiKeyNotValid == <<"a","p","i"," ","k","e","y"," ","n","o","t"," ","v","a","l","i","d">>

InvalidApiKey == <<"i","n","v","a","l","i","d"," ","a","p","i"," ","k","e","y">>

Quota == <<"q","u","o","t","a">>

\* length of the excerpt of the raw response carried by a parse failure
ExcerptLength == 200

(***************************************************************************)
(* JSON.parse.  A parsed value is a tagged record; an object is a function *)
(* from its keys to their values (a repeated key keeps its last value).    *)
(* A number is kept as its lexeme.  String escapes other than \" \\ \/ \n  *)
(* \t \r are not modelled; no input of the model uses them.                *)
(***************************************************************************)
JString(s) == [t |-> "string", s |-> s]

JNumber(lexeme) == [t |-> "number", n |-> lexeme]

JLiteral(l) == [t |-> "literal", l |-> l]

JObject(o) == [t |-> "object", o |-> o]

JArray(a) == [t |-> "array", a |-> a]

NoData == [t |-> "none"]

ParseFail == [ok |-> FALSE, v |-> NoData, i |-> 0]

Parsed(v, i) == [ok |-> TRUE, v |-> v, i |-> i]

\* the character at position i, "" past the end
At(s, i) == IF i \in DOMAIN s THEN s[i] ELSE ""

Digits == Range(DigitChars)

IsDigit(c) == c \in Digits

RECURSIVE SkipWhitespace(_, _)
SkipWhitespace(s, i) ==
  IF IsWhitespace(At(s, i)) THEN SkipWhitespace(s, i + 1) ELSE i

RECURSIVE SkipDigits(_, _)
SkipDigits(s, i) ==
  IF IsDigit(At(s, i)) THEN SkipDigits(s, i + 1) ELSE i

RECURSIVE ScanString(_, _, _)
ScanString(s, i, acc) ==
  LET c == At(s, i)
      e == At(s, i + 1)
  IN  CASE c = "" -> ParseFail
        [] c = "\"" -> Parsed(JString(acc), i + 1)
        [] c = "\\" ->
             CASE e \in {"\"", "\\", "/"} -> ScanString(s, i + 2, Append(acc, e))
               [] e = "n" -> ScanString(s, i + 2, Append(acc, "\n"))
               [] e = "t" -> ScanString(s, i + 2, Append(acc, "\t"))
               [] e = "r" -> ScanString(s, i + 2, Append(acc, "\r"))
               [] OTHER -> ParseFail
        [] c \in {"\n", "\t", "\r"} -> ParseFail
        [] OTHER -> ScanString(s, i + 1, Append(acc, c))

ParseString(s, i) ==
  IF At(s, i) = "\"" THEN ScanString(s, i + 1, << >>) ELSE ParseFail

ParseNumber(s, i) ==
  LET a == IF At(s, i) = "-" THEN i + 1 ELSE i
      b == IF At(s, a) = "0" THEN a + 1 ELSE SkipDigits(s, a)
      hasFrac == At(s, b) = "." /\ IsDigit(At(s, b + 1))
      c == IF hasFrac THEN SkipDigits(s, b + 1) ELSE b
      d == IF At(s, c + 1) \in {"+", "-"} THEN c + 2 ELSE c + 1
      hasExp == At(s, c) \in {"e", "E"} /\ IsDigit(At(s, d))
      z == IF hasExp THEN SkipDigits(s, d) ELSE c
  IN  IF IsDigit(At(s, a)) THEN Parsed(JNumber(SubSeq(s, i, z - 1)), z) ELSE ParseFail

ParseLiteral(s, i, word, name) ==
  IF i + Len(word) - 1 <= Len(s) /\ SubSeq(s, i, i + Len(word) - 1) = word
    THEN Parsed(JLiteral(name), i + Len(word))
    ELSE ParseFail

RECURSIVE ParseValue(_, _)
RECURSIVE ParseMembers(_, _, _)
RECURSIVE ParseElements(_, _, _)

\* the members of an object, from the first character of a key
ParseMembers(s, i, acc) ==
  LET k == ParseString(s, i)
      colon == SkipWhitespace(s, k.i)
      v == ParseValue(s, SkipWhitespace(s, colon + 1))
      next == SkipWhitespace(s, v.i)
      obj == (k.v.s :> v.v) @@ acc
  IN  IF ~k.ok \/ At(s, colon) # ":" THEN ParseFail
      ELSE IF ~v.ok THEN ParseFail
      ELSE CASE At(s, next) = "," -> ParseMembers(s, SkipWhitespace(s, next + 1), obj)
             [] At(s, next) = "}" -> Parsed(JObject(obj), next + 1)
             [] OTHER -> ParseFail

\* the elements of an array, from the first character of an element
ParseElements(s, i, acc) ==
  LET v == ParseValue(s, i)
      next == SkipWhitespace(s, v.i)
      arr == Append(acc, v.v)
  IN  IF ~v.ok THEN ParseFail
      ELSE CASE At(s, next) = "," -> ParseElements(s, SkipWhitespace(s, next + 1), arr)
             [] At(s, next) = "]" -> Parsed(JArray(arr), next + 1)
             [] OTHER -> ParseFail

ParseValue(s, i) ==
  LET c == At(s, i)
      j == SkipWhitespace(s, i + 1)
  IN  CASE c = "{" -> IF At(s, j) = "}" THEN Parsed(JObject(<< >>), j + 1)
                      ELSE ParseMembers(s, j, << >>)
        [] c = "[" -> IF At(s, j) = "]" THEN Parsed(JArray(<< >>), j + 1)
                      ELSE ParseElements(s, j, << >>)
        [] c = "\"" -> ParseString(s, i)
        [] c = "-" \/ IsDigit(c) -> ParseNumber(s, i)
        [] c = "t" -> ParseLiteral(s, i, <<"t","r","u","e">>, "true")
        [] c = "f" -> ParseLiteral(s, i, <<"f","a","l","s","e">>, "false")
        [] c = "n" -> ParseLiteral(s, i, <<"n","u","l","l">>, "null")
        [] OTHER -> ParseFail

\* JSON.parse(text): ok is FALSE where JSON.parse throws a SyntaxError
JSONparse(text) ==
  LET r == ParseValue(text, SkipWhitespace(text, 1))
  IN  IF r.ok /\ SkipWhitespace(text, r.i) = Len(text) + 1 THEN r ELSE ParseFail

(***************************************************************************)
(* jsonStr.match(fenceRegex): whether the fence pattern matches, and its   *)
(* capture group 2.  The pattern is: start of text, three backticks, an    *)
(* optional run of word characters, optional whitespace, a lazy group 2    *)
(* (dot matches newlines), optional whitespace, three backticks, end of    *)
(* text.  The greedy runs take the longest prefix after the opening fence; *)
(* the lazy group then stops before the whitespace that precedes the       *)
(* closing fence.                                                          *)
(***************************************************************************)
\* the backtick character (the parser of TLA+ accepts no backtick in a string)
Backtick == "BACKTICK"

Fence == <<Backtick, Backtick, Backtick>>

RECURSIVE SkipWordChars(_, _)
SkipWordChars(s, i) ==
  IF IsWordChar(At(s, i)) THEN SkipWordChars(s, i + 1) ELSE i

fenceRegex(s) ==
  LET n == Len(s)
      matched == n >= 2 * Len(Fence) /\ SubSeq(s, 1, Len(Fence)) = Fence
                 /\ SubSeq(s, n - Len(Fence) + 1, n) = Fence
      from == SkipWhitespace(s, SkipWordChars(s, Len(Fence) + 1))
      solid == {i \in from..(n - Len(Fence)) : ~IsWhitespace(s[i])}
      to == IF solid = {} THEN from - 1 ELSE CHOOSE i \in solid : \A j \in solid : j <= i
  IN  IF matched THEN [matched |-> TRUE, group2 |-> SubSeq(s, from, to)]
      ELSE [matched |-> FALSE, group2 |-> << >>]

(***************************************************************************)
(* Inputs: the secrets a caller passes, the messages of the error the      *)
(* client constructor throws, and the outcomes of the remote request.      *)
(***************************************************************************)
Secrets == { << >>, <<" ","\n">>, <<"A">>, <<" ","B">> }

ConstructorMessages == { <<"A","n"," ","A","P","I"," ","K","e","y"," ","m","u","s","t"," ","b","e"," ","s","e","t",".">> }

\* a text longer than the excerpt
LongText == [i \in 1..(ExcerptLength + Len(Ellipsis) + 1) |-> "x"]

\* a text whose only occurrence of "quota" lies beyond the excerpt
LongQuotaText == [i \in 1..ExcerptLength |-> "x"] \o Quota

\* the six keys of AnalysisData
AnalysisKeys ==
  { <<"r","e","s","i","s","t","a","n","c","e","S","u","p","p","o","r","t">>, <<"t","r","e","n","d","s">>, <<"c","h","a","r","t","P","a","t","t","e","r","n","s">>,
    <<"c","a","n","d","l","e","s","t","i","c","k","P","a","t","t","e","r","n","s">>, <<"v","o","l","u","m","e","A","n","a","l","y","s","i","s">>, <<"m","o","m","e","n","t","u","m">> }

\* an object with the six keys
SixKeysText ==
  <<"{","\"","r","e","s","i","s","t","a","n","c","e","S","u","p","p","o","r","t","\"",":","\"","r","\"",",","\"","t","r","e","n","d","s","\"",":","\"","t","\"",",","\"","c","h","a","r","t","P","a","t","t","e","r","n","s","\"",":","\"","c","\"",",">>
  \o <<" ","\"","c","a","n","d","l","e","s","t","i","c","k","P","a","t","t","e","r","n","s","\"",":","\"","k","\"",",","\"","v","o","l","u","m","e","A","n","a","l","y","s","i","s","\"",":","\"","v","\"",",","\"","m","o","m","e","n","t","u","m","\"",":","\"","m","\"","}">>

\* JSON object texts: with one of the six keys, with no key, and with a
\* key outside the six whose value contains a fence
ObjectTexts ==
  { <<"{","\"","t","r","e","n","d","s","\"",":","\"","u","p","\"","}">>,
    <<"{","}">>,
    <<"{","\"","n","o","t","e","\"",":","\"",Backtick,Backtick,Backtick,"\"","}">> }

\* well-formed JSON texts
JsonTexts ==
  ObjectTexts \cup
  { SixKeysText,
    <<" ","{","\"","t","r","e","n","d","s","\"",":","\"","u","p","\"",",","\"","n","o","t","e","\"",":","[","1",",","{","\"","x","\"",":","n","u","l","l","}","]","}","\n">>,
    <<"n","u","l","l">> }

\* the ways of wrapping a text in a fenced code block: the whitespace
\* before the block, the language tag, the whitespace around the text and
\* the whitespace after the block
Fences ==
  { [lead |-> << >>, tag |-> <<"j","s","o","n">>, open |-> <<"\n">>, close |-> <<"\n">>, trail |-> << >>],
    [lead |-> << >>, tag |-> << >>, open |-> << >>, close |-> << >>, trail |-> << >>],
    [lead |-> <<" ","\n">>, tag |-> <<"J","S","O","N">>, open |-> <<"\n"," "," ">>, close |-> <<" ","\n">>, trail |-> <<"\n">>] }

Fenced(text, f) ==
  f.lead \o Fence \o f.tag \o f.open \o text \o f.close \o Fence \o f.trail

FencedTexts == {Fenced(text, f) : text \in ObjectTexts, f \in Fences}

\* response.text of a request that succeeded: undefined, or a string
ResponseTexts ==
  { Null, Str(<< >>), Str(<<" ","\n">>),
    Str(<<"n","o","t"," ","j","s","o","n">>),
    Str(<<"I","n","v","a","l","i","d"," ","A","P","I"," ","k","e","y">>),
    Str(<<"o","v","e","r"," ","q","u","o","t","a">>),
    Str(LongText),
    Str(LongQuotaText) }
  \cup {Str(text) : text \in JsonTexts}
  \cup {Str(text) : text \in FencedTexts}

\* error.message of a request that failed: undefined, or a string
ErrorMessages ==
  { Null, Str(<< >>),
    Str(<<"A","P","I"," ","k","e","y"," ","n","o","t"," ","v","a","l","i","d">>),
    Str(<<"I","n","v","a","l","i","d"," ","A","P","I"," ","K","e","y"," ","p","r","o","v","i","d","e","d">>),
    Str(<<"q","u","o","t","a"," ","e","x","c","e","e","d","e","d">>),
    Str(<<"Q","u","o","t","a"," ","e","x","c","e","e","d","e","d">>),
    Str(<<"q","u","o","t","a"," ","e","x","c","e","e","d","e","d",":"," ","a","p","i"," ","k","e","y"," ","n","o","t"," ","v","a","l","i","d">>),
    Str(<<"f","e","t","c","h"," ","f","a","i","l","e","d">>) }

Resolved(text) == [ok |-> TRUE, text |-> text, message |-> Null]

Rejected(message) == [ok |-> FALSE, text |-> Null, message |-> message]

NoResponse == [ok |-> FALSE, text |-> Null, message |-> Null]

RemoteOutcomes ==
  {Resolved(t) : t \in ResponseTexts} \cup {Rejected(m) : m \in ErrorMessages}

(***************************************************************************)
(* The record of the last step: the operation that completed (or          *)
(* "generateContent" when an analyze call issued its request and is        *)
(* suspended at the await), its argument, what it threw, what it returned, *)
(* the state the step started from and, for analyze, the client its        *)
(* request was issued with, the outcome of the request and the number of   *)
(* requests the call issued.                                               *)
(***************************************************************************)
Call(op, key, error, ret, data, client, response, sent) ==
  [op |-> op, key |-> key, error |-> error, ret |-> ret, data |-> data,
   client |-> client, response |-> response, sent |-> sent,
   before |-> [ai |-> ai, localStorage |-> localStorage, op |-> last.op]]

(***************************************************************************)
(* Credential manager.                                                     *)
(***************************************************************************)
\* setGeminiApiKey without the write to storage
setGeminiApiKey_NoSetItem(key, constructed, message) ==
  /\ IF trim(key) = << >>
       THEN /\ ai' = NoClient
            /\ localStorage' = Null
            /\ last' = Call("setGeminiApiKey", Str(key), Error(EmptyKeyMessage),
                            Null, NoData, NoClient, NoResponse, 0)
       ELSE IF constructed
         THEN /\ ai' = GoogleGenAI(key)
              /\ localStorage' = localStorage
              /\ last' = Call("setGeminiApiKey", Str(key), NoError,
                              Null, NoData, NoClient, NoResponse, 0)
         ELSE /\ ai' = NoClient
              /\ localStorage' = localStorage
              /\ last' = Call("setGeminiApiKey", Str(key),
                              Error(InitFailedPrefix \o message),
                              Null, NoData, NoClient, NoResponse, 0)
  /\ UNCHANGED <<inflight, requests, settlement>>

\* setGeminiApiKey testing the key without trimming it
setGeminiApiKey_NoTrim(key, constructed, message) ==
  /\ IF key = << >>
       THEN /\ ai' = NoClient
            /\ localStorage' = Null
            /\ last' = Call("setGeminiApiKey", Str(key), Error(EmptyKeyMessage),
                            Null, NoData, NoClient, NoResponse, 0)
       ELSE IF constructed
         THEN /\ ai' = GoogleGenAI(key)
              /\ localStorage' = Str(key)
              /\ last' = Call("setGeminiApiKey", Str(key), NoError,
                              Null, NoData, NoClient, NoResponse, 0)
         ELSE /\ ai' = NoClient
              /\ localStorage' = localStorage
              /\ last' = Call("setGeminiApiKey", Str(key),
                              Error(InitFailedPrefix \o message),
                              Null, NoData, NoClient, NoResponse, 0)
  /\ UNCHANGED <<inflight, requests, settlement>>

\* setGeminiApiKey writing the key to storage before it constructs the client
setGeminiApiKey_SetItemFirst(key, constructed, message) ==
  /\ IF trim(key) = << >>
       THEN /\ ai' = NoClient
            /\ localStorage' = Null
            /\ last' = Call("setGeminiApiKey", Str(key), Error(EmptyKeyMessage),
                            Null, NoData, NoClient, NoResponse, 0)
       ELSE IF constructed
         THEN /\ ai' = GoogleGenAI(key)
              /\ localStorage' = Str(key)
              /\ last' = Call("setGeminiApiKey", Str(key), NoError,
                              Null, NoData, NoClient, NoResponse, 0)
         ELSE /\ ai' = NoClient
              /\ localStorage' = Str(key)
              /\ last' = Call("setGeminiApiKey", Str(key),
                              Error(InitFailedPrefix \o message),
                              Null, NoData, NoClient, NoResponse, 0)
  /\ UNCHANGED <<inflight, requests, settlement>>

\* new GoogleGenAI({apiKey: key}) in a try block: constructed says whether
\* the constructor returned, message is the message of what it threw
setGeminiApiKey(key, constructed, message) ==
  /\ IF trim(key) = << >>
       THEN /\ ai' = NoClient
            /\ localStorage' = Null
            /\ last' = Call("setGeminiApiKey", Str(key), Error(EmptyKeyMessage),
                            Null, NoData, NoClient, NoResponse, 0)
       ELSE IF constructed
         THEN /\ ai' = GoogleGenAI(key)
              /\ localStorage' = Str(key)
              /\ last' = Call("setGeminiApiKey", Str(key), NoError,
                              Null, NoData, NoClient, NoResponse, 0)
         ELSE /\ ai' = NoClient
              /\ localStorage' = localStorage
              /\ last' = Call("setGeminiApiKey", Str(key),
                              Error(InitFailedPrefix \o message),
                              Null, NoData, NoClient, NoResponse, 0)
  /\ UNCHANGED <<inflight, requests, settlement>>

\* the client and the return value of loadApiKeyFromStorage
loadResult(storedKey, constructed) ==
  IF Truthy(storedKey)
    THEN IF constructed
           THEN [ai |-> GoogleGenAI(storedKey.str), ret |-> storedKey]
           ELSE [ai |-> NoClient, ret |-> storedKey]
    ELSE [ai |-> NoClient, ret |-> Null]

\* loadApiKeyFromStorage removing a stored key that constructs no client
loadApiKeyFromStorage_RemoveOnFailure(constructed) ==
  LET r == loadResult(localStorage, constructed)
  IN  /\ ai' = r.ai
      /\ localStorage' = IF r.ai.live THEN localStorage ELSE Null
      /\ last' = Call("loadApiKeyFromStorage", Null, NoError, r.ret,
                      NoData, NoClient, NoResponse, 0)
      /\ UNCHANGED <<inflight, requests, settlement>>

loadApiKeyFromStorage(constructed) ==
  LET r == loadResult(localStorage, constructed)
  IN  /\ ai' = r.ai
      /\ last' = Call("loadApiKeyFromStorage", Null, NoError, r.ret,
                      NoData, NoClient, NoResponse, 0)
      /\ UNCHANGED <<localStorage, inflight, requests, settlement>>

isGeminiClientInitialized == ai.live

getStoredApiKey == localStorage

\* clearGeminiApiKey without the removal from storage
clearGeminiApiKey_NoRemoveItem ==
  /\ ai' = NoClient
  /\ localStorage' = localStorage
  /\ last' = Call("clearGeminiApiKey", Null, NoError, Null, NoData,
                  NoClient, NoResponse, 0)
  /\ UNCHANGED <<inflight, requests, settlement>>

\* clearGeminiApiKey leaving the client in place
clearGeminiApiKey_KeepClient ==
  /\ ai' = ai
  /\ localStorage' = Null
  /\ last' = Call("clearGeminiApiKey", Null, NoError, Null, NoData,
                  NoClient, NoResponse, 0)
  /\ UNCHANGED <<inflight, requests, settlement>>

clearGeminiApiKey ==
  /\ ai' = NoClient
  /\ localStorage' = Null
  /\ last' = Call("clearGeminiApiKey", Null, NoError, Null, NoData,
                  NoClient, NoResponse, 0)
  /\ UNCHANGED <<inflight, requests, settlement>>

(***************************************************************************)
(* Analysis orchestrator.  The image data and its media type are copied    *)
(* into the request and decide nothing; they are left out.                 *)
(***************************************************************************)
\* jsonStr without the unwrapping of a fenced block
jsonStr_NoFence(responseText) == trim(responseText)

\* jsonStr: the response text trimmed, and unwrapped if it is fenced
jsonStr(responseText) ==
  LET trimmed == trim(responseText)
      match == fenceRegex(trimmed)
  IN  IF match.matched /\ match.group2 # << >> THEN trim(match.group2) ELSE trimmed

\* tryBlock rejecting a parsed value that is not an object with the six keys
tryBlock_RequiredKeys(response) ==
  LET responseText == response.text
      parsed == JSONparse(jsonStr(responseText.str))
      failed == [caught |-> TRUE, data |-> NoData,
                 message |-> Str(ParseFailedPrefix
                                 \o substring0(responseText.str, ExcerptLength) \o Ellipsis)]
  IN  IF ~response.ok THEN [caught |-> TRUE, message |-> response.message, data |-> NoData]
      ELSE IF ~Truthy(responseText)
        THEN [caught |-> TRUE, message |-> Str(EmptyResponseMessage), data |-> NoData]
      ELSE IF parsed.ok
        THEN IF parsed.v.t = "object" /\ AnalysisKeys \subseteq DOMAIN parsed.v.o
               THEN [caught |-> FALSE, message |-> Null, data |-> parsed.v]
               ELSE failed
      ELSE failed

\* the try block after the await: what it returns, or the error it throws
\* into the catch block
tryBlock(response) ==
  LET responseText == response.text
      parsed == JSONparse(jsonStr(responseText.str))
  IN  IF ~response.ok THEN [caught |-> TRUE, message |-> response.message, data |-> NoData]
      ELSE IF ~Truthy(responseText)
        THEN [caught |-> TRUE, message |-> Str(EmptyResponseMessage), data |-> NoData]
      ELSE IF parsed.ok THEN [caught |-> FALSE, message |-> Null, data |-> parsed.v]
      ELSE [caught |-> TRUE, data |-> NoData,
            message |-> Str(ParseFailedPrefix
                            \o substring0(responseText.str, ExcerptLength) \o Ellipsis)]

\* catchBlock matching the invalid-key signal without lower-casing
catchBlock_CaseSensitive(message) ==
  LET m == message.str
  IN  IF (Truthy(message) /\ includes(m, ApiKeyNotValid))
        THEN [error |-> Error(InvalidKeyMessage), invalidate |-> TRUE]
      ELSE IF ~message.has
        THEN [error |-> TypeError, invalidate |-> FALSE]
      ELSE IF includes(m, InvalidApiKey)
        THEN [error |-> Error(InvalidKeyMessage), invalidate |-> TRUE]
      ELSE IF Truthy(message) /\ includes(m, Quota)
        THEN [error |-> Error(QuotaPrefix \o m), invalidate |-> FALSE]
      ELSE [error |-> Error(AnalyzeFailedPrefix \o (IF Truthy(message) THEN m ELSE UnknownError)),
            invalidate |-> FALSE]

\* catchBlock setting ai to null on a quota error too
catchBlock_QuotaInvalidates(message) ==
  LET m == message.str
  IN  IF (Truthy(message) /\ includes(toLowerCase(m), ApiKeyNotValid))
        THEN [error |-> Error(InvalidKeyMessage), invalidate |-> TRUE]
      ELSE IF ~message.has
        THEN [error |-> TypeError, invalidate |-> FALSE]
      ELSE IF includes(toLowerCase(m), InvalidApiKey)
        THEN [error |-> Error(InvalidKeyMessage), invalidate |-> TRUE]
      ELSE IF Truthy(message) /\ includes(m, Quota)
        THEN [error |-> Error(QuotaPrefix \o m), invalidate |-> TRUE]
      ELSE [error |-> Error(AnalyzeFailedPrefix \o (IF Truthy(message) THEN m ELSE UnknownError)),
            invalidate |-> FALSE]

\* the catch block: the error it throws, and whether it sets ai to null.
\* With no message, the second disjunct of the first test calls toLowerCase
\* on undefined.
catchBlock(message) ==
  LET m == message.str
  IN  IF (Truthy(message) /\ includes(toLowerCase(m), ApiKeyNotValid))
        THEN [error |-> Error(InvalidKeyMessage), invalidate |-> TRUE]
      ELSE IF ~message.has
        THEN [error |-> TypeError, invalidate |-> FALSE]
      ELSE IF includes(toLowerCase(m), InvalidApiKey)
        THEN [error |-> Error(InvalidKeyMessage), invalidate |-> TRUE]
      ELSE IF Truthy(message) /\ includes(m, Quota)
        THEN [error |-> Error(QuotaPrefix \o m), invalidate |-> FALSE]
      ELSE [error |-> Error(AnalyzeFailedPrefix \o (IF Truthy(message) THEN m ELSE UnknownError)),
            invalidate |-> FALSE]

\* analyzeChartWithGemini testing only the key that the reload returns
analyzeChartWithGemini_KeyOnly(constructed) ==
  LET r == loadResult(localStorage, constructed)
      client == IF ai.live THEN ai ELSE r.ai
  IN  IF ~ai.live /\ ~Truthy(r.ret)
        THEN /\ ai' = r.ai
             /\ last' = Call("analyzeChartWithGemini", Null, Error(NotInitializedMessage),
                             Null, NoData, NoClient, NoResponse, 0)
             /\ UNCHANGED <<localStorage, inflight, requests, settlement>>
        ELSE /\ requests < MaxRequests
             /\ BagCardinality(inflight) < MaxInFlight
             /\ ai' = client
             /\ inflight' = inflight (+) SetToBag({client})
             /\ requests' = requests + 1
             /\ last' = Call("generateContent", Null, NoError, Null, NoData,
                             client, NoResponse, 1)
             /\ UNCHANGED <<localStorage, settlement>>

\* analyzeChartWithGemini up to the await: the check of the client, with one
\* reload from storage, and the request
analyzeChartWithGemini(constructed) ==
  LET r == loadResult(localStorage, constructed)
      client == IF ai.live THEN ai ELSE r.ai
  IN  IF ~ai.live /\ (~Truthy(r.ret) \/ ~r.ai.live)
        THEN /\ ai' = r.ai
             /\ last' = Call("analyzeChartWithGemini", Null, Error(NotInitializedMessage),
                             Null, NoData, NoClient, NoResponse, 0)
             /\ UNCHANGED <<localStorage, inflight, requests, settlement>>
        ELSE /\ requests < MaxRequests
             /\ BagCardinality(inflight) < MaxInFlight
             /\ ai' = client
             /\ inflight' = inflight (+) SetToBag({client})
             /\ requests' = requests + 1
             /\ last' = Call("generateContent", Null, NoError, Null, NoData,
                             client, NoResponse, 1)
             /\ UNCHANGED <<localStorage, settlement>>

\* the code after the await: the data it returns or the error it throws,
\* and whether it sets ai to null
afterAwait(response) ==
  LET t == tryBlock(response)
      c == catchBlock(t.message)
  IN  IF t.caught THEN [error |-> c.error, data |-> NoData, invalidate |-> c.invalidate]
      ELSE [error |-> NoError, data |-> t.data, invalidate |-> FALSE]

\* generateContentSettled issuing the request again when the call fails
generateContentSettled_Retry(client, response) ==
  LET r == settlement[response]
  IN  /\ BagIn(client, inflight)
      /\ inflight' = inflight (-) SetToBag({client})
      /\ ai' = IF r.invalidate THEN NoClient ELSE ai
      /\ requests' = IF r.error.thrown THEN requests + 1 ELSE requests
      /\ last' = Call("analyzeChartWithGemini", Null, r.error, Null, r.data,
                      client, response, 1)
      /\ UNCHANGED <<localStorage, settlement>>

\* generateContentSettled installing the client of the call again when the
\* call succeeds
generateContentSettled_Reinstall(client, response) ==
  LET r == settlement[response]
  IN  /\ BagIn(client, inflight)
      /\ inflight' = inflight (-) SetToBag({client})
      /\ ai' = IF r.invalidate THEN NoClient
               ELSE IF r.error.thrown THEN ai ELSE client
      /\ last' = Call("analyzeChartWithGemini", Null, r.error, Null, r.data,
                      client, response, 1)
      /\ UNCHANGED <<localStorage, requests, settlement>>

\* analyzeChartWithGemini from the await on, for the request issued with
\* client, when the remote service answers with response
generateContentSettled(client, response) ==
  LET r == settlement[response]
  IN  /\ BagIn(client, inflight)
      /\ inflight' = inflight (-) SetToBag({client})
      /\ ai' = IF r.invalidate THEN NoClient ELSE ai
      /\ last' = Call("analyzeChartWithGemini", Null, r.error, Null, r.data,
                      client, response, 1)
      /\ UNCHANGED <<localStorage, requests, settlement>>

(***************************************************************************)
(* The specification: any caller, any order, any remote outcome.           *)
(***************************************************************************)
StoredSecrets == {Null} \cup {Str(k) : k \in {s \in Secrets : trim(s) # << >>}}

\* the useState values of App before its effect has run.  apiKeyMessage
\* is shown and decides nothing; it is left out.  encoding is the number of
\* handleAnalyzeChart calls awaiting fileToBase64.
useState ==
  [mounted |-> FALSE, chartImageFile |-> FALSE, chartImagePreview |-> FALSE,
   analysis |-> NoData, isLoading |-> FALSE, error |-> Null,
   apiKeyInput |-> << >>, isKeyInputVisible |-> TRUE,
   clientInitialized |-> FALSE, encoding |-> 0]

\* the texts that App passes to setError
StoredKeyFailedMessage ==
  <<"F","a","i","l","e","d"," ","t","o"," ","i","n","i","t","i","a","l","i","z","e"," ","w","i","t","h"," ","s","t","o","r","e","d"," ","A","P","I"," ","K","e","y","."," ","I","t"," ","m","i","g","h","t"," ","b","e"," ","i","n","v","a","l","i","d"," ","o","r"," ","e","x","p","i","r","e","d",".">>

EnterValidKeyMessage == <<"P","l","e","a","s","e"," ","e","n","t","e","r"," ","a"," ","v","a","l","i","d"," ","A","P","I"," ","K","e","y",".">>

SetKeyFailedPrefix == <<"F","a","i","l","e","d"," ","t","o"," ","s","e","t"," ","A","P","I"," ","K","e","y",":"," ">>

UploadFirstMessage == <<"P","l","e","a","s","e"," ","u","p","l","o","a","d"," ","a"," ","c","h","a","r","t"," ","i","m","a","g","e"," ","f","i","r","s","t",".">>

KeyNotSetMessage ==
  <<"G","e","m","i","n","i"," ","A","P","I"," ","K","e","y"," ","i","s"," ","n","o","t"," ","s","e","t"," ","o","r"," ","c","l","i","e","n","t"," ","i","s"," ","n","o","t"," ","i","n","i","t","i","a","l","i","z","e","d","."," ","P","l","e","a","s","e"," ","s","e","t"," ","y","o","u","r"," ","A","P","I"," ","k","e","y",".">>

AnalyzeFailedMessage ==
  <<"F","a","i","l","e","d"," ","t","o"," ","a","n","a","l","y","z","e"," ","c","h","a","r","t","."," ","C","h","e","c","k"," ","t","h","e"," ","c","o","n","s","o","l","e"," ","f","o","r"," ","m","o","r","e"," ","d","e","t","a","i","l","s",".">>

\* the value that a parsed JSON value is in the component: the JSON text
\* null parses to null, which is what analysis holds when there is none
asState(data) == IF data = JLiteral("null") THEN NoData ELSE data

Init ==
  /\ app = useState
  /\ ai = NoClient
  /\ localStorage \in StoredSecrets
  /\ inflight = EmptyBag
  /\ requests = 0
  /\ settlement = [response \in RemoteOutcomes |-> afterAwait(response)]
  /\ last = [op |-> "none", key |-> Null, error |-> NoError, ret |-> Null,
             data |-> NoData, client |-> NoClient, response |-> NoResponse, sent |-> 0,
             before |-> [ai |-> NoClient, localStorage |-> localStorage, op |-> "none"]]

SetCredential ==
  \E key \in Secrets, constructed \in BOOLEAN, message \in ConstructorMessages :
    setGeminiApiKey(key, constructed, message) /\ UNCHANGED app

LoadFromStorage ==
  \E constructed \in BOOLEAN : loadApiKeyFromStorage(constructed) /\ UNCHANGED app

ClearCredential == clearGeminiApiKey /\ UNCHANGED app

AnalyzeCall ==
  \E constructed \in BOOLEAN : analyzeChartWithGemini(constructed) /\ UNCHANGED app

AnalyzeSettle ==
  \E client \in BagToSet(inflight), response \in RemoteOutcomes :
    generateContentSettled(client, response) /\ UNCHANGED app

Next ==
  \/ SetCredential
  \/ LoadFromStorage
  \/ ClearCredential
  \/ AnalyzeCall
  \/ AnalyzeSettle

Spec == Init /\ [][Next]_vars

(***************************************************************************)
(* The App component: its effect and its handlers drive the credential     *)
(* manager and the orchestrator.  A handler runs only when the element it  *)
(* is bound to is rendered and enabled.                                    *)
(***************************************************************************)
service == <<ai, localStorage, inflight, requests, last, settlement>>

\* the effect that runs once when the component is mounted
useEffect(constructed) ==
  /\ ~app.mounted
  /\ loadApiKeyFromStorage(constructed)
  /\ LET storedKey == last'.ret
     IN  app' = IF Truthy(storedKey)
                  THEN [app EXCEPT !.mounted = TRUE,
                                   !.apiKeyInput = storedKey.str,
                                   !.clientInitialized = isGeminiClientInitialized',
                                   !.isKeyInputVisible = ~isGeminiClientInitialized',
                                   !.error = IF isGeminiClientInitialized'
                                               THEN @ ELSE Str(StoredKeyFailedMessage)]
                  ELSE [app EXCEPT !.mounted = TRUE,
                                   !.clientInitialized = FALSE,
                                   !.isKeyInputVisible = TRUE]

\* onChange of the key input
setApiKeyInput(value) ==
  /\ app.mounted /\ app.isKeyInputVisible
  /\ app' = [app EXCEPT !.apiKeyInput = value]
  /\ UNCHANGED service

\* the Set Key button
handleSetApiKey(constructed, message) ==
  /\ app.mounted /\ app.isKeyInputVisible
  /\ IF trim(app.apiKeyInput) = << >>
       THEN /\ app' = [app EXCEPT !.clientInitialized = FALSE,
                                   !.error = Str(EnterValidKeyMessage)]
            /\ UNCHANGED service
       ELSE /\ setGeminiApiKey(trim(app.apiKeyInput), constructed, message)
            /\ app' = IF last'.error.thrown
                        THEN [app EXCEPT !.clientInitialized = FALSE,
                                         !.isKeyInputVisible = TRUE,
                                         !.error = Str(SetKeyFailedPrefix
                                                       \o last'.error.message)]
                        ELSE [app EXCEPT !.clientInitialized = TRUE,
                                         !.isKeyInputVisible = FALSE,
                                         !.error = Null]

\* the Change Key button
handleChangeApiKey ==
  /\ app.mounted /\ ~app.isKeyInputVisible /\ app.clientInitialized
  /\ clearGeminiApiKey
  /\ app' = [app EXCEPT !.clientInitialized = FALSE,
                        !.isKeyInputVisible = TRUE,
                        !.apiKeyInput = IF Truthy(getStoredApiKey')
                                          THEN getStoredApiKey'.str ELSE << >>,
                        !.error = Null,
                        !.analysis = NoData]

\* the image input
handleImageUpload ==
  /\ app.mounted
  /\ app' = [app EXCEPT !.chartImageFile = TRUE,
                        !.analysis = NoData,
                        !.error = Null]
  /\ UNCHANGED service

\* the reader of the uploaded image has finished
onloadend ==
  /\ app.mounted /\ app.chartImageFile /\ ~app.chartImagePreview
  /\ app' = [app EXCEPT !.chartImagePreview = TRUE]
  /\ UNCHANGED service

\* the Analyze Chart button not disabled while an analysis is loading
AnalyzeEnabled_IgnoresLoading ==
  /\ app.chartImagePreview
  /\ ~(~app.chartImageFile \/ ~app.clientInitialized)

\* the Analyze Chart button is rendered and not disabled
AnalyzeEnabled ==
  /\ app.chartImagePreview
  /\ ~(app.isLoading \/ ~app.chartImageFile \/ ~app.clientInitialized)

\* handleAnalyzeChart up to its first await
handleAnalyzeChart ==
  /\ app.mounted /\ AnalyzeEnabled
  /\ app.encoding + BagCardinality(inflight) < MaxInFlight
  /\ requests < MaxRequests
  /\ app' = IF ~app.chartImageFile
              THEN [app EXCEPT !.error = Str(UploadFirstMessage)]
            ELSE IF ~app.clientInitialized
              THEN [app EXCEPT !.error = Str(KeyNotSetMessage),
                               !.isKeyInputVisible = TRUE]
            ELSE [app EXCEPT !.isLoading = TRUE,
                             !.error = Null,
                             !.analysis = NoData,
                             !.encoding = @ + 1]
  /\ UNCHANGED service

\* catchFinally without the finally block
catchFinally_NoFinally(message) ==
  LET shown == IF Truthy(message) THEN message ELSE Str(AnalyzeFailedMessage)
  IN  IF /\ Truthy(message)
         /\ \/ includes(toLowerCase(message.str), ApiKeyNotValid)
            \/ includes(toLowerCase(message.str), InvalidApiKey)
        THEN [app EXCEPT !.error = shown,
                         !.clientInitialized = FALSE,
                         !.isKeyInputVisible = TRUE]
        ELSE [app EXCEPT !.error = shown]

\* the catch and finally blocks of handleAnalyzeChart, for an error with
\* this message
catchFinally(message) ==
  LET shown == IF Truthy(message) THEN message ELSE Str(AnalyzeFailedMessage)
  IN  IF /\ Truthy(message)
         /\ \/ includes(toLowerCase(message.str), ApiKeyNotValid)
            \/ includes(toLowerCase(message.str), InvalidApiKey)
        THEN [app EXCEPT !.error = shown,
                         !.clientInitialized = FALSE,
                         !.isKeyInputVisible = TRUE,
                         !.isLoading = FALSE]
        ELSE [app EXCEPT !.error = shown, !.isLoading = FALSE]

\* handleAnalyzeChart from the answer of fileToBase64 to the next await:
\* read says whether the image was encoded; if it was, analyze is called
fileToBase64Settled(read, constructed) ==
  /\ app.encoding > 0
  /\ IF ~read
       THEN /\ app' = [catchFinally(Str(UnknownError)) EXCEPT !.encoding = @ - 1]
            /\ UNCHANGED service
       ELSE /\ analyzeChartWithGemini(constructed)
            /\ app' = IF last'.op = "generateContent"
                        THEN [app EXCEPT !.encoding = @ - 1]
                        ELSE [catchFinally(Str(last'.error.message))
                                EXCEPT !.encoding = @ - 1]

\* handleAnalyzeChart from the answer of analyze on
handleAnalyzeChartSettled(client, response) ==
  /\ generateContentSettled(client, response)
  /\ app' = IF last'.error.thrown
              THEN catchFinally(Str(last'.error.message))
              ELSE [app EXCEPT !.analysis = asState(last'.data),
                               !.isLoading = FALSE]

Mount == \E constructed \in BOOLEAN : useEffect(constructed)

TypeKey == \E value \in Secrets : setApiKeyInput(value)

SetKey ==
  \E constructed \in BOOLEAN, message \in ConstructorMessages :
    handleSetApiKey(constructed, message)

ChangeKey == handleChangeApiKey

ImageUpload == handleImageUpload

ImageLoaded == onloadend

Analyze == handleAnalyzeChart

Encoded ==
  \E read \in BOOLEAN, constructed \in BOOLEAN : fileToBase64Settled(read, constructed)

Answered ==
  \E client \in BagToSet(inflight), response \in RemoteOutcomes :
    handleAnalyzeChartSettled(client, response)

AppNext ==
  \/ Mount
  \/ TypeKey
  \/ SetKey
  \/ ChangeKey
  \/ ImageUpload
  \/ ImageLoaded
  \/ Analyze
  \/ Encoded
  \/ Answered

AppSpec == Init /\ [][AppNext]_vars

\* the reader of fileToBase64 finishes, and the remote request completes
\* or fails
AppFairSpec ==
  Init /\ [][AppNext]_vars /\ WF_vars(Encoded) /\ WF_vars(Answered)

(***************************************************************************)
(* The error kinds of the design, as the errors the code throws.           *)
(***************************************************************************)
endsWith(s, pat) == Len(s) >= Len(pat) /\ SubSeq(s, Len(s) - Len(pat) + 1, Len(s)) = pat

IsInvalidInput(e) == e = Error(EmptyKeyMessage)

IsClientConstructionFailed(e) == e.name = "Error" /\ startsWith(e.message, InitFailedPrefix)

IsNotAuthenticated(e) == e = Error(NotInitializedMessage)

IsEmptyResponse(e) == e = Error(EmptyResponseMessage)

\* a parse failure, surfaced as thrown or wrapped in another message
IsMalformedAnalysis(e) == e.name = "Error" /\ includes(e.message, ParseFailedPrefix)

IsRemoteAuthRejected(e) == e = Error(InvalidKeyMessage)

IsQuotaExceeded(e) == e.name = "Error" /\ startsWith(e.message, QuotaPrefix)

IsTransportFailure(e) == e.name = "Error" /\ startsWith(e.message, AnalyzeFailedPrefix)

\* the invalid-key signal of the remote service in a message
HasInvalidKeySignal(m) ==
  includes(toLowerCase(m), ApiKeyNotValid) \/ includes(toLowerCase(m), InvalidApiKey)

\* the last operation was an analyze call whose request was answered
Settled == last.op = "analyzeChartWithGemini" /\ last.sent = 1

(***************************************************************************)
(* Credential manager: properties.                                         *)
(***************************************************************************)
\* C1: setGeminiApiKey with a secret that is non-empty after trimming and
\* constructs a client returns normally from any state, and leaves the client
\* initialized and exactly that secret in storage.
C1_SetCredentialSuccess ==
  [][\A key \in Secrets, message \in ConstructorMessages :
       (trim(key) # << >> /\ setGeminiApiKey(key, TRUE, message))
         => /\ last'.error = NoError
            /\ isGeminiClientInitialized'
            /\ ai' = GoogleGenAI(key)
            /\ getStoredApiKey' = Str(key)]_vars

\* a secret with surrounding whitespace was set over another stored secret
C1_Witness ==
  /\ last.op = "setGeminiApiKey" /\ last.error = NoError
  /\ last.key = Str(<<" ","B">>)
  /\ last.before.localStorage = Str(<<"A">>)
  /\ isGeminiClientInitialized /\ getStoredApiKey = Str(<<" ","B">>)

\* C2: setGeminiApiKey with an empty or whitespace-only secret fails with
\* InvalidInput from any state, and leaves no client and no stored secret.
C2_SetCredentialEmpty ==
  [][\A key \in Secrets, constructed \in BOOLEAN, message \in ConstructorMessages :
       (trim(key) = << >> /\ setGeminiApiKey(key, constructed, message))
         => /\ IsInvalidInput(last'.error)
            /\ ~isGeminiClientInitialized'
            /\ getStoredApiKey' = Null]_vars

\* a whitespace-only secret was rejected in the Ready state
C2_Witness ==
  /\ last.op = "setGeminiApiKey" /\ IsInvalidInput(last.error)
  /\ last.key = Str(<<" ","\n">>)
  /\ last.before.ai.live /\ last.before.localStorage.has
  /\ ~isGeminiClientInitialized /\ getStoredApiKey = Null

\* C3: setGeminiApiKey with a non-empty secret whose client construction
\* fails throws ClientConstructionFailed with the underlying message, leaves
\* no client, and leaves storage exactly as it was.
C3_SetCredentialConstructionFailed ==
  [][\A key \in Secrets, message \in ConstructorMessages :
       (trim(key) # << >> /\ setGeminiApiKey(key, FALSE, message))
         => /\ IsClientConstructionFailed(last'.error)
            /\ last'.error.message = InitFailedPrefix \o message
            /\ ~isGeminiClientInitialized'
            /\ getStoredApiKey' = getStoredApiKey]_vars

\* construction failed in the Ready state, with another secret stored
C3_Witness ==
  /\ last.op = "setGeminiApiKey" /\ IsClientConstructionFailed(last.error)
  /\ last.before.ai.live
  /\ getStoredApiKey.has /\ getStoredApiKey # last.key
  /\ getStoredApiKey = last.before.localStorage
  /\ ~isGeminiClientInitialized

\* C4: loadApiKeyFromStorage returns the stored secret whether or not the
\* construction succeeds, installs a client iff it succeeds, and leaves
\* storage as it was; with nothing stored it returns null and leaves no
\* client.
C4_LoadFromStorage ==
  [][\A constructed \in BOOLEAN :
       loadApiKeyFromStorage(constructed)
         => /\ last'.error = NoError
            /\ getStoredApiKey' = getStoredApiKey
            /\ IF getStoredApiKey.has
                 THEN /\ last'.ret = getStoredApiKey
                      /\ isGeminiClientInitialized' <=> constructed
                      /\ constructed => ai' = GoogleGenAI(getStoredApiKey.str)
                 ELSE /\ last'.ret = Null
                      /\ ~isGeminiClientInitialized']_vars

\* a load returned the stored secret and installed no client, over a live one
C4_Witness ==
  /\ last.op = "loadApiKeyFromStorage"
  /\ last.ret.has /\ last.ret = getStoredApiKey
  /\ last.before.ai.live /\ ~isGeminiClientInitialized

\* C5: clearGeminiApiKey never throws and leaves no client and no stored
\* secret; a second call right after the first changes nothing.
C5_ClearIdempotent ==
  [][clearGeminiApiKey
       => /\ last'.error = NoError
          /\ ~isGeminiClientInitialized'
          /\ getStoredApiKey' = Null
          /\ last.op = "clearGeminiApiKey"
               => (ai' = ai /\ localStorage' = localStorage /\ UNCHANGED <<inflight, requests, settlement>>)]_vars

\* two calls in a row
C5_Witness ==
  /\ last.op = "clearGeminiApiKey" /\ last.before.op = "clearGeminiApiKey"
  /\ ~isGeminiClientInitialized /\ getStoredApiKey = Null
  /\ last.before.ai = ai /\ last.before.localStorage = localStorage

(***************************************************************************)
(* Analysis orchestrator: properties.                                      *)
(***************************************************************************)
\* C6: analyze called with no client reloads once from storage; if there is
\* still no client it throws NotAuthenticated and issues no request, else
\* the request goes out with the reloaded client.
C6_NotAuthenticatedNoRequest ==
  [][\A constructed \in BOOLEAN :
       (~isGeminiClientInitialized /\ analyzeChartWithGemini(constructed))
         => /\ ai' = loadResult(getStoredApiKey, constructed).ai
            /\ IF isGeminiClientInitialized'
                 THEN /\ last'.op = "generateContent"
                      /\ requests' = requests + 1
                      /\ inflight' = inflight (+) SetToBag({ai'})
                 ELSE /\ last'.op = "analyzeChartWithGemini"
                      /\ IsNotAuthenticated(last'.error)
                      /\ last'.sent = 0
                      /\ requests' = requests
                      /\ inflight' = inflight]_vars

\* analyze failed with a secret stored that constructs no client, no request
\* having been issued
C6_Witness ==
  /\ last.op = "analyzeChartWithGemini" /\ IsNotAuthenticated(last.error)
  /\ getStoredApiKey.has /\ ~isGeminiClientInitialized
  /\ requests = 0 /\ inflight = EmptyBag

\* C7: when the request fails with a message carrying the invalid-key signal
\* in any letter case, analyze throws RemoteAuthRejected and leaves no
\* client; it does not touch storage.
C7_RemoteAuthRejected ==
  (/\ Settled
   /\ ~last.response.ok
   /\ Truthy(last.response.message)
   /\ HasInvalidKeySignal(last.response.message.str))
    => /\ IsRemoteAuthRejected(last.error)
       /\ ~isGeminiClientInitialized
       /\ getStoredApiKey = last.before.localStorage

\* the signal arrived in mixed case while the client was live
C7_Witness ==
  /\ Settled
  /\ last.response = Rejected(Str(<<"A","P","I"," ","k","e","y"," ","n","o","t"," ","v","a","l","i","d">>))
  /\ last.before.ai.live /\ last.before.ai = last.client
  /\ IsRemoteAuthRejected(last.error)
  /\ ~isGeminiClientInitialized /\ getStoredApiKey.has

\* C8: when the request fails with a message containing "quota" and no
\* invalid-key signal, analyze throws QuotaExceeded with that message and
\* leaves the client and storage as they were: a client that was live is
\* still live.
C8_QuotaExceeded ==
  (/\ Settled
   /\ ~last.response.ok
   /\ Truthy(last.response.message)
   /\ includes(last.response.message.str, Quota)
   /\ ~HasInvalidKeySignal(last.response.message.str))
    => /\ IsQuotaExceeded(last.error)
       /\ last.error.message = QuotaPrefix \o last.response.message.str
       /\ ai = last.before.ai
       /\ last.before.ai.live => isGeminiClientInitialized
       /\ getStoredApiKey = last.before.localStorage

\* a quota error arrived and the client of the call is still live
C8_Witness ==
  /\ Settled
  /\ last.response = Rejected(Str(<<"q","u","o","t","a"," ","e","x","c","e","e","d","e","d">>))
  /\ IsQuotaExceeded(last.error)
  /\ last.client.live /\ ai = last.client
  /\ isGeminiClientInitialized /\ getStoredApiKey = Str(ai.apiKey)

\* the response text of the last call is not JSON, fenced or not
Unparseable(text) == ~JSONparse(jsonStr(text)).ok

\* C9: every non-empty response text that does not parse makes analyze throw
\* MalformedAnalysis, carrying at most ExcerptLength characters of the text
\* and the ellipsis.
C9_MalformedAnalysis ==
  (/\ Settled
   /\ last.response.ok
   /\ Truthy(last.response.text)
   /\ Unparseable(last.response.text.str))
    => /\ IsMalformedAnalysis(last.error)
       /\ endsWith(last.error.message,
                   substring0(last.response.text.str, ExcerptLength) \o Ellipsis)
       /\ Len(last.error.message) <=
            Len(AnalyzeFailedPrefix) + Len(ParseFailedPrefix) + ExcerptLength + Len(Ellipsis)

\* C10: a response with no text makes analyze throw EmptyResponse as it is,
\* not an error of the TransportFailure, QuotaExceeded or RemoteAuthRejected
\* kind.
C10_EmptyResponse ==
  (/\ Settled
   /\ last.response.ok
   /\ ~Truthy(last.response.text))
    => /\ IsEmptyResponse(last.error)
       /\ ~IsTransportFailure(last.error)
       /\ ~IsQuotaExceeded(last.error)
       /\ ~IsRemoteAuthRejected(last.error)
\* the step is the continuation of an analyze call after its request: the
\* one of the call that last' records
SettledStep ==
  /\ last'.op = "analyzeChartWithGemini"
  /\ last'.sent = 1
  /\ generateContentSettled(last'.client, last'.response)

\* the message of the error the remote request raised carries neither the
\* invalid-key signal nor "quota"
Unclassified(message) ==
  ~(Truthy(message) /\ (HasInvalidKeySignal(message.str) \/ includes(message.str, Quota)))

\* C11: when the request fails with an error that carries neither the
\* invalid-key signal nor "quota", an error with no message included, analyze
\* throws TransportFailure carrying the message of the error, or the
\* unknown-error placeholder when there is none.
C11_TransportFailure ==
  (/\ Settled
   /\ ~last.response.ok
   /\ Unclassified(last.response.message))
    => /\ IsTransportFailure(last.error)
       /\ last.error.message =
            AnalyzeFailedPrefix \o (IF Truthy(last.response.message)
                                      THEN last.response.message.str
                                      ELSE UnknownError)

\* the response text is well-formed JSON
WellFormed(text) == JSONparse(text).ok

\* C12: every response text that is well-formed JSON makes analyze return
\* the parsed value as it is: an object comes back with exactly its keys and
\* their values, whether or not they are the six keys of AnalysisData.
C12_ReturnsParsedObject ==
  (/\ Settled
   /\ last.response.ok
   /\ Truthy(last.response.text)
   /\ WellFormed(last.response.text.str))
    => /\ last.error = NoError
       /\ last.data = JSONparse(last.response.text.str).v
       /\ last.response.text.str = <<"{","\"","t","r","e","n","d","s","\"",":","\"","u","p","\"","}">>
            => last.data = JObject(<<"t","r","e","n","d","s">> :> JString(<<"u","p">>))
       /\ last.response.text.str = SixKeysText
            => DOMAIN last.data.o = AnalysisKeys

\* an object with one of the six keys and a key outside them came back whole
C12_Witness ==
  /\ Settled
  /\ last.response = Resolved(Str(<<" ","{","\"","t","r","e","n","d","s","\"",":","\"","u","p","\"",",","\"","n","o","t","e","\"",":","[","1",",","{","\"","x","\"",":","n","u","l","l","}","]","}","\n">>))
  /\ last.error = NoError
  /\ last.data.t = "object"
  /\ DOMAIN last.data.o = { <<"t","r","e","n","d","s">>, <<"n","o","t","e">> }
  /\ last.data.o[<<"t","r","e","n","d","s">>] = JString(<<"u","p">>)
  /\ last.data.o[<<"n","o","t","e">>].t = "array"

\* C13: a JSON object text wrapped in a fenced code block, with or without
\* a language tag and surrounding whitespace, makes analyze return what the
\* bare text makes it return.
C13_FenceStripping ==
  \A text \in ObjectTexts, f \in Fences :
    (Settled /\ last.response = Resolved(Str(Fenced(text, f))))
      => /\ last.error = settlement[Resolved(Str(text))].error
         /\ last.data = settlement[Resolved(Str(text))].data
         /\ last.error = NoError
         /\ last.data = JSONparse(text).v

\* a fenced object with a language tag in capitals and whitespace around
\* the block came back as the bare object does
C13_Witness ==
  /\ Settled
  /\ \E f \in Fences :
       /\ f.lead # << >> /\ f.tag # << >> /\ f.trail # << >>
       /\ last.response = Resolved(Str(Fenced(<<"{","\"","n","o","t","e","\"",":","\"",Backtick,Backtick,Backtick,"\"","}">>, f)))
  /\ last.error = NoError
  /\ last.data = JObject(<<"n","o","t","e">> :> JString(Fence))

\* C14: an analyze call that passes the check of the client issues one
\* request, and its continuation issues none, whatever the outcome.
C14_ExactlyOneRequest ==
  [][/\ \A constructed \in BOOLEAN :
          analyzeChartWithGemini(constructed)
            => IF last'.op = "generateContent"
                 THEN /\ requests' = requests + 1
                      /\ last'.sent = 1
                      /\ inflight' = inflight (+) SetToBag({ai'})
                 ELSE /\ requests' = requests
                      /\ last'.sent = 0
                      /\ inflight' = inflight
     /\ SettledStep
          => /\ requests' = requests
             /\ BagCardinality(inflight') = BagCardinality(inflight) - 1]_vars

\* a call failed with a transport error after its one request
C14_Witness ==
  /\ Settled
  /\ IsTransportFailure(last.error)
  /\ last.sent = 1 /\ requests = 1 /\ inflight = EmptyBag
\* the remote service raised an error carrying the invalid-key signal
RemoteSignal(response) ==
  /\ ~response.ok
  /\ Truthy(response.message)
  /\ HasInvalidKeySignal(response.message.str)

\* C16: an analyze call that started with a live client and whose request
\* and answer are consecutive steps, no other call in flight, leaves the
\* client live and storage as it was in every outcome other than an error
\* of the remote service carrying the invalid-key signal.
C16_TeardownOnlyOnRemoteSignal ==
  [][(/\ last.op = "generateContent"
      /\ last.before.ai.live
      /\ BagCardinality(inflight) = 1
      /\ SettledStep
      /\ ~RemoteSignal(last'.response))
       => /\ ai' = ai
          /\ isGeminiClientInitialized'
          /\ getStoredApiKey' = getStoredApiKey]_vars

\* C17: the analyze call that follows an analyze call rejected by the
\* remote service for its key, with no credential operation in between,
\* throws NotAuthenticated and issues no request, so none with the rejected
\* secret.
C17_ForcedBackToCredentialEntry ==
  [][\A constructed \in BOOLEAN :
       (/\ Settled
        /\ RemoteSignal(last.response)
        /\ IsRemoteAuthRejected(last.error)
        /\ analyzeChartWithGemini(constructed))
         => /\ last'.op = "analyzeChartWithGemini"
            /\ IsNotAuthenticated(last'.error)
            /\ requests' = requests
            /\ ~BagIn(GoogleGenAI(last.client.apiKey), inflight' (-) inflight)]_vars

\* C18: whenever the client is live, a secret is stored and the client was
\* constructed from exactly that secret.  The module holds one client, ai.
C18_LiveHandleMatchesStorage ==
  isGeminiClientInitialized
    => /\ getStoredApiKey.has
       /\ ai = GoogleGenAI(getStoredApiKey.str)

\* an analyze call ended while the request of another, issued with a client
\* for another secret, is still awaited; the live client is the one of the
\* stored secret
C18_Witness ==
  /\ Settled
  /\ isGeminiClientInitialized
  /\ ai = GoogleGenAI(getStoredApiKey.str)
  /\ \E client \in BagToSet(inflight) : client # ai
  /\ last.client # ai

\* C19: when setGeminiApiKey installs a client for another secret while a
\* request is awaited, and the request then fails with the invalid-key
\* signal, the client that setGeminiApiKey installed is still live.
C19_InvalidationOnlyIssuingHandle ==
  (/\ Settled
   /\ RemoteSignal(last.response)
   /\ last.before.op = "setGeminiApiKey"
   /\ last.before.ai.live
   /\ last.before.ai.apiKey # last.client.apiKey)
    => /\ isGeminiClientInitialized
       /\ ai = last.before.ai

\* C20: the continuation of analyze after its request installs no client
\* and writes no secret: with any outcome the client is as it was or none,
\* and storage is as it was; after clearGeminiApiKey there is still no client
\* and no stored secret.
C20_NoInstallAfterRequest ==
  [][SettledStep
       => /\ ai' \in {ai, NoClient}
          /\ ~isGeminiClientInitialized => ~isGeminiClientInitialized'
          /\ getStoredApiKey' = getStoredApiKey
          /\ last.op = "clearGeminiApiKey"
               => (~isGeminiClientInitialized' /\ getStoredApiKey' = Null)]_vars

\* a request answered with an analysis right after clearGeminiApiKey ran
C20_Witness ==
  /\ Settled
  /\ last.before.op = "clearGeminiApiKey"
  /\ last.client.live
  /\ last.error = NoError /\ last.data.t = "object"
  /\ ~isGeminiClientInitialized /\ getStoredApiKey = Null
(***************************************************************************)
(* App component: properties.                                              *)
(***************************************************************************)
\* the key input is shown and the component holds the client uninitialized
Reshown == app.isKeyInputVisible /\ ~app.clientInitialized

\* C15: whenever the analyze call of handleAnalyzeChart throws
\* NotAuthenticated or RemoteAuthRejected, the handler ends with the key
\* input shown and clientInitialized false.
C15_CredentialEntryReshown ==
  [][/\ \A constructed \in BOOLEAN :
          (/\ fileToBase64Settled(TRUE, constructed)
           /\ last'.op = "analyzeChartWithGemini"
           /\ IsNotAuthenticated(last'.error))
            => Reshown'
     /\ \A client \in BagToSet(inflight), response \in RemoteOutcomes :
          (/\ handleAnalyzeChartSettled(client, response)
           /\ IsRemoteAuthRejected(last'.error))
            => Reshown']_vars
\* the handleAnalyzeChart calls that have started and not finished: those
\* awaiting fileToBase64 and those awaiting analyzeChartWithGemini
Running == app.encoding + BagCardinality(inflight)

\* C21: in the App component at most one handleAnalyzeChart call runs at a
\* time, so at most one analyze call is awaited; while one runs isLoading
\* is true and the Analyze Chart button is disabled.
C21_AtMostOneAnalyze ==
  /\ Running <= 1
  /\ BagCardinality(inflight) <= 1
  /\ Running = 1 => (app.isLoading /\ ~AnalyzeEnabled)
  /\ Running = 0 => ~app.isLoading

\* a request is awaited while the key was changed and set again: the button
\* is rendered with an image and an initialized client, and only isLoading
\* disables it
C21_Witness ==
  /\ BagCardinality(inflight) = 1
  /\ app.isLoading
  /\ app.chartImagePreview /\ app.chartImageFile /\ app.clientInitialized
  /\ isGeminiClientInitialized
  /\ ~BagIn(ai, inflight)
\* the step is the end of a handleAnalyzeChart call
FinishStep == app.isLoading /\ ~app'.isLoading

\* the step is the continuation of handleAnalyzeChart after the answer of
\* analyze, and analyze returned
Succeeded ==
  /\ last'.op = "analyzeChartWithGemini"
  /\ last'.sent = 1
  /\ ~last'.error.thrown
  /\ handleAnalyzeChartSettled(last'.client, last'.response)

\* C22, as stated: once handleAnalyzeChart has set isLoading, isLoading
\* becomes false again, and at that point exactly one of analysis and error
\* is set: analysis when analyze returned, error when anything failed.
C22_AnalysisFinishes ==
  /\ app.isLoading ~> ~app.isLoading
  /\ [][FinishStep
          => IF Succeeded
               THEN app'.analysis # NoData /\ app'.error = Null
               ELSE app'.error # Null /\ app'.analysis = NoData]_vars

\* C22, amended: once handleAnalyzeChart has set isLoading, isLoading
\* becomes false again; at that point, when anything failed error is set and
\* analysis is not, and when analyze returned analysis is the value returned,
\* which is none for the JSON text null, and error is as it was before the
\* answer, set if a Set Key attempt failed during the await.
C22_AnalysisFinishesAmended ==
  /\ app.isLoading ~> ~app.isLoading
  /\ [][FinishStep
          => IF Succeeded
               THEN app'.analysis = asState(last'.data) /\ app'.error = app.error
               ELSE Truthy(app'.error) /\ app'.analysis = NoData]_vars

\* an analysis ended with an object returned while the error of a Set Key
\* attempt made during the await is shown
C22_Witness ==
  /\ Settled
  /\ ~last.error.thrown
  /\ ~app.isLoading
  /\ app.analysis.t = "object"
  /\ app.error = Str(EnterValidKeyMessage)
====
